---- MODULE Spec2Model ----
(***************************************************************************)
(* Flamingo proxy server (v1.1, src/unnamed/part_001): the four request    *)
(* handlers POST /chat, POST /openai, GET /airtable, POST /airtable/swipe  *)
(* and the helper getSwipeSummaryForUser, together with the v1.0 GET       *)
(* /airtable handler of src/proxy-server.js.                               *)
(*                                                                         *)
(* Every handler is an async function: it runs without interruption from   *)
(* one await to the next.  An action of this model is one such run: it     *)
(* takes the outcome of the awaited call (drawn with \E from what the      *)
(* remote service can answer), executes the code up to the next await and  *)
(* records the outbound call the code issues there.                        *)
(*                                                                         *)
(* JavaScript strings are TLA+ strings (TLC evaluates \o and Len on        *)
(* them), so template literals and join() are computed, not abstracted.    *)
(***************************************************************************)
EXTENDS Integers, Sequences, FiniteSets, TLC

\* ------------------------------------------------------------------ bounds
NumReqs == 2          \* POST /chat requests that exist in the model
MaxPolls == 2         \* re-polls of the run status recorded per request
MaxChatRecords == 1   \* swipe records the store returns to a /chat request
MaxRecords == 3       \* swipe records rendered by the summary on its own
MaxThreadMsgs == 2    \* messages a run leaves in its thread
MaxFairMsgs == 1      \* the same, in the specifications with fairness

Reqs == 1 .. NumReqs
ThreadIds == 1 .. NumReqs
RunIds == 1 .. NumReqs

\* ------------------------------------------------------------ JS values
\* A property that is absent from a JSON object (undefined / null).
Undefined == "<undefined>"

\* JavaScript truthiness of a string-or-undefined value: `if (v)`.
Truthy(v) == v # Undefined /\ v # ""

\* Array.prototype.join on an array of strings.  (Array.prototype.filter is
\* SelectSeq of the Sequences module.)
RECURSIVE Join(_, _)
Join(xs, sep) ==
  IF Len(xs) = 0 THEN ""
  ELSE IF Len(xs) = 1 THEN xs[1]
  ELSE xs[1] \o sep \o Join(Tail(xs), sep)

\* All sequences over S of length at most n.
SeqsUpTo(S, n) == UNION {[1 .. k -> S] : k \in 0 .. n}

\* ------------------------------------------------- getSwipeSummaryForUser
\* One record of the Swipes table as the query returns it: fields.Action and
\* fields.Listing (a linked-record array; <<>> when the field is empty or
\* absent, which the code treats alike).
SwipeRecords ==
  { [Action |-> "Like", Listing |-> <<"A">>],
    [Action |-> "Like", Listing |-> <<"B", "A">>],
    [Action |-> "Like", Listing |-> <<>>],
    [Action |-> "Dislike", Listing |-> <<"A">>],
    [Action |-> "Superlike", Listing |-> <<"B">>] }

NoSwipesText == "No past swipes recorded for this user."

IsLike(rec) == rec.Action = "Like"
IsDislike(rec) == rec.Action = "Dislike"
HasListing(rec) == Len(rec.Listing) > 0

\* Mutant of LikedListingIds: the ids of disliked listings are collected too.
RECURSIVE LikedListingIds_AnyAction(_)
LikedListingIds_AnyAction(records) ==
  IF Len(records) = 0 THEN <<>>
  ELSE (IF HasListing(records[1])
        THEN <<records[1].Listing[1]>> ELSE <<>>)
       \o LikedListingIds_AnyAction(Tail(records))

\* likedListingIds: Listing[0] of every Like record that has one, in order.
RECURSIVE LikedListingIds(_)
LikedListingIds(records) ==
  IF Len(records) = 0 THEN <<>>
  ELSE (IF IsLike(records[1]) /\ HasListing(records[1])
        THEN <<records[1].Listing[1]>> ELSE <<>>)
       \o LikedListingIds(Tail(records))

\* The counted summary of a non-empty records array.
CountedSummary(records) ==
  LET likes == Len(SelectSeq(records, IsLike))
      dislikes == Len(SelectSeq(records, IsDislike))
      ids == LikedListingIds(records)
      base == "User has " \o ToString(likes) \o " like(s) and "
              \o ToString(dislikes) \o " dislike(s)."
  IN IF Len(ids) > 0
     THEN base \o " IDs of liked listings: " \o Join(ids, ", ") \o "."
     ELSE base

\* Mutant of SwipeSummary: an empty records array is counted like any other.
SwipeSummary_CountsEmpty(present, records) ==
  IF ~present THEN NoSwipesText ELSE CountedSummary(records)

\* What getSwipeSummaryForUser makes of a parsed 2xx body: `present` says
\* whether the body has a `records` property at all, `records` is its value.
SwipeSummary(present, records) ==
  IF ~present \/ Len(records) = 0 THEN NoSwipesText
  ELSE CountedSummary(records)

\* The outcomes of the fetch of the swipes query and of reading its body.
\*   transport : fetch rejects
\*   http      : a response arrived; ok is response.ok; json says whether
\*               response.json() parses; present/records is the parsed body
SwipeOutcome(kind, ok, json, present, records) ==
  [kind |-> kind, ok |-> ok, json |-> json, present |-> present,
   records |-> records]

SwipeOutcomes(n) ==
  {SwipeOutcome("transport", FALSE, FALSE, FALSE, <<>>)}
  \cup {SwipeOutcome("http", FALSE, j, FALSE, <<>>) : j \in BOOLEAN}
  \cup {SwipeOutcome("http", TRUE, FALSE, FALSE, <<>>)}
  \cup {SwipeOutcome("http", TRUE, TRUE, FALSE, <<>>)}
  \cup {SwipeOutcome("http", TRUE, TRUE, TRUE, rs) :
          rs \in SeqsUpTo(SwipeRecords, n)}

NoOutcome == SwipeOutcome("none", FALSE, FALSE, FALSE, <<>>)

\* Mutant of SwipeSummaryResult: the response.ok test is forgotten.
SwipeSummaryResult_NoOkTest(o) ==
  IF o.kind = "transport" THEN Undefined
  ELSE IF ~o.json THEN Undefined
  ELSE SwipeSummary(o.present, o.records)

\* The value getSwipeSummaryForUser resolves to for an outcome of its fetch:
\* null (Undefined) on every failure path (the try/catch turns a rejected
\* fetch and a body that does not parse into null), the summary otherwise.
SwipeSummaryResult(o) ==
  IF o.kind = "transport" THEN Undefined
  ELSE IF ~o.ok THEN Undefined
  ELSE IF ~o.json THEN Undefined
  ELSE SwipeSummary(o.present, o.records)

\* ----------------------------------------------------------- POST /chat
ChatMessages == {Undefined, "", "Hi"}
ChatRenterIds == {Undefined, "", "u1"}

\* Mutant of MessageMissing: only an absent message is rejected.
MessageMissing_OnlyAbsent(message) == message = Undefined

\* `if (!message)`.
MessageMissing(message) == ~Truthy(message)

\* fullContent after the enrichment step.
EnrichedContent(swipeSummary, message) ==
  IF Truthy(swipeSummary)
  THEN "Context based on user's past property swipes: " \o swipeSummary
       \o "\n\nUser's current message: " \o message
  ELSE message

\* message of an Error thrown by a failing SDK call.
ErrMessages == {"Connection error.", ""}

CatchFallbackText == "Fiona blew a feather. Please try again."

\* Mutant of CatchResponse: the error is sent without res.status(500).
CatchResponse_NoStatus(errMessage) ==
  [status |-> 200, kind |-> "error",
   text |-> IF Truthy(errMessage) THEN errMessage ELSE CatchFallbackText]

\* The catch block: res.status(500).json({ error: err.message || fallback }).
CatchResponse(errMessage) ==
  [status |-> 500, kind |-> "error",
   text |-> IF Truthy(errMessage) THEN errMessage ELSE CatchFallbackText]

BadRequestResponse ==
  [status |-> 400, kind |-> "error", text |-> "Message is required"]

ReplyResponse(reply) == [status |-> 200, kind |-> "reply", text |-> reply]

NoResponse == [status |-> 0, kind |-> "none", text |-> ""]

\* Run statuses of the assistant API.
PendingStatuses == {"queued", "in_progress"}
TerminalStatuses ==
  {"completed", "failed", "cancelled", "expired", "requires_action"}

\* Mutant of KeepPolling: the loop goes on until the run completed.
KeepPolling_UntilCompleted(status) == status # "completed"

\* Mutant of KeepPolling: the loop goes on until the run completed or failed.
KeepPolling_UntilFinal(status) == status # "completed" /\ status # "failed"

\* The loop condition of the polling loop.
KeepPolling(status) == status = "queued" \/ status = "in_progress"

\* last_error?.message of a failed run.
LastErrorMessages == {Undefined, "", "Rate limit exceeded"}

\* Mutant of RunFailedText: the upstream's reason is dropped.
RunFailedText_NoReason(lastErrorMessage) == "Assistant run failed"

\* The Error thrown for a failed run.
RunFailedText(lastErrorMessage) ==
  "Assistant run failed: "
  \o (IF Truthy(lastErrorMessage) THEN lastErrorMessage ELSE "Unknown error")

\* The Error thrown for a run that ended neither completed nor failed.
RunNotCompletedText(status) ==
  "Assistant run did not complete. Status: " \o status

\* Content blocks and messages of a thread.
TextBlock(v) == [type |-> "text", value |-> v]
ImageBlock == [type |-> "image_file", value |-> Undefined]

UserMessage(content) ==
  [role |-> "user", run_id |-> 0, content |-> <<TextBlock(content)>>]

IsTextBlock(b) == b.type = "text"

RECURSIVE BlockTexts(_)
BlockTexts(blocks) ==
  IF Len(blocks) = 0 THEN <<>>
  ELSE <<blocks[1].value>> \o BlockTexts(Tail(blocks))

NoReplyText == "[Fiona is thinking...]"

\* Mutant of ChatReply: the first assistant message of the run is taken.
ChatReply_First(data, run) ==
  LET OfRun(m) == m.run_id = run /\ m.role = "assistant"
      assistantMessages == SelectSeq(data, OfRun)
  IN IF Len(assistantMessages) > 0
     THEN Join(BlockTexts(SelectSeq(assistantMessages[1].content, IsTextBlock)),
               "\n")
     ELSE NoReplyText

\* Step 5 of the handler: the reply computed from messagesPage.data (in
\* ascending order) for the run `run`.
ChatReply(data, run) ==
  LET OfRun(m) == m.run_id = run /\ m.role = "assistant"
      assistantMessages == SelectSeq(data, OfRun)
  IN IF Len(assistantMessages) > 0
     THEN Join(BlockTexts(SelectSeq(
            assistantMessages[Len(assistantMessages)].content, IsTextBlock)),
            "\n")
     ELSE NoReplyText

\* Outbound calls a handler issues, in issue order.
Call(op, content) == [op |-> op, content |-> content]

VARIABLES
  pc,           \* per /chat request: the await the handler is suspended at
  req,          \* per /chat request: req.body {message, renterId}
  swipes,       \* per /chat request: the outcome of the swipes query
  swipeSummary, \* per /chat request: the local swipeSummary
  fullContent,  \* per /chat request: the local fullContent
  threadId,     \* per /chat request: thread.id (0 before it exists)
  runId,        \* per /chat request: run.id (0 before it exists)
  runStatus,    \* per /chat request: the local runStatus {status, last_error}
  polls,        \* per /chat request: re-polls issued
  res,          \* per /chat request: the response sent
  calls,        \* per /chat request: outbound calls issued, in order
  rejected,     \* per /chat request: the SDK call that rejected ("" if none)
  sent,         \* per /chat request: how many responses were sent
  nextThread,   \* assistant API: id of the next thread it creates
  nextRun,      \* assistant API: id of the next run it creates
  threadMsgs,   \* assistant API: messages of each thread, ascending
  runs,         \* assistant API: each run's thread, status and last_error
  px,           \* the single-call handler in flight: /openai, /airtable, swipe
  pxPrev,       \* the relay completed before it: route, upstream, response
  sm            \* getSwipeSummaryForUser's rendering on its own

chatVars == <<pc, req, swipes, swipeSummary, fullContent, threadId, runId,
              runStatus, polls, res, calls, rejected, sent>>
apiVars == <<nextThread, nextRun, threadMsgs, runs>>
pxVars == <<px, pxPrev>>
vars == <<chatVars, apiVars, pxVars, sm>>

NoReq == [message |-> Undefined, renterId |-> Undefined]
NoStatus == [status |-> "none", last_error |-> Undefined]
NoRun == [thread |-> 0, status |-> "none", last_error |-> Undefined]

NoUpstream == [kind |-> "none"]
NoRelay == [status |-> 0]
PxIdle == [pc |-> "idle", route |-> "none", req |-> <<>>, calls |-> <<>>,
           up |-> NoUpstream, res |-> NoRelay]
NoPrev == [route |-> "none", up |-> NoUpstream, res |-> NoRelay]
SmIdle == [pc |-> "idle", records |-> <<>>, out |-> Undefined]

ChatInit ==
  /\ pc = [r \in Reqs |-> "idle"]
  /\ req = [r \in Reqs |-> NoReq]
  /\ swipes = [r \in Reqs |-> NoOutcome]
  /\ swipeSummary = [r \in Reqs |-> Undefined]
  /\ fullContent = [r \in Reqs |-> Undefined]
  /\ threadId = [r \in Reqs |-> 0]
  /\ runId = [r \in Reqs |-> 0]
  /\ runStatus = [r \in Reqs |-> NoStatus]
  /\ polls = [r \in Reqs |-> 0]
  /\ res = [r \in Reqs |-> NoResponse]
  /\ calls = [r \in Reqs |-> <<>>]
  /\ rejected = [r \in Reqs |-> ""]
  /\ sent = [r \in Reqs |-> 0]
  /\ nextThread = 1
  /\ nextRun = 1
  /\ threadMsgs = [t \in ThreadIds |-> <<>>]
  /\ runs = [u \in RunIds |-> NoRun]

Init ==
  /\ ChatInit
  /\ px = PxIdle
  /\ pxPrev = NoPrev
  /\ sm = SmIdle

\* ------------------------------------------------- the assistant API
\* What a run can leave in its thread when it completes: assistant messages
\* of the run with text and non-text content, and messages the handler's
\* filter must skip (another run's, another role's).
AssistantContents ==
  { <<TextBlock("Hello")>>,
    <<TextBlock("World")>>,
    <<ImageBlock>>,
    <<TextBlock("Hello"), ImageBlock, TextBlock("World")>> }

OtherRunId == NumReqs + 1

RunMessages(u) ==
  {[role |-> "assistant", run_id |-> u, content |-> c] : c \in AssistantContents}
  \cup {[role |-> "assistant", run_id |-> OtherRunId,
         content |-> <<TextBlock("Other run")>>],
        [role |-> "user", run_id |-> u, content |-> <<TextBlock("Not me")>>]}

\* The API works on a run: queued -> in_progress -> a final status, or
\* straight from queued to a final status.  A completed run has appended its
\* messages to the thread; a failed one carries last_error.
RunAdvance(u, maxMsgs) ==
  /\ runs[u].status \in PendingStatuses
  /\ \/ /\ runs[u].status = "queued"
        /\ runs' = [runs EXCEPT ![u].status = "in_progress"]
        /\ UNCHANGED threadMsgs
     \/ /\ \E out \in SeqsUpTo(RunMessages(u), maxMsgs) :
             threadMsgs' = [threadMsgs EXCEPT ![runs[u].thread] = @ \o out]
        /\ runs' = [runs EXCEPT ![u].status = "completed"]
     \/ /\ \E e \in LastErrorMessages :
             runs' = [runs EXCEPT ![u].status = "failed", ![u].last_error = e]
        /\ UNCHANGED threadMsgs
     \/ /\ \E st \in TerminalStatuses \ {"completed", "failed"} :
             runs' = [runs EXCEPT ![u].status = st]
        /\ UNCHANGED threadMsgs
  /\ UNCHANGED <<chatVars, nextThread, nextRun, pxVars, sm>>

\* ------------------------------------------------ POST /chat, step by step
\* The handler answers: the response is sent and the handler returns.
Respond(r, response) ==
  /\ res' = [res EXCEPT ![r] = response]
  /\ sent' = [sent EXCEPT ![r] = @ + 1]
  /\ pc' = [pc EXCEPT ![r] = "done"]
  /\ UNCHANGED <<pxVars, sm>>

\* An Error is thrown inside the try block: control passes to the catch.
Throw(r, errMessage) == Respond(r, CatchResponse(errMessage))

\* The awaited SDK call `op` rejects with an Error.
Reject(r, op) ==
  /\ \E e \in ErrMessages : Throw(r, e)
  /\ rejected' = [rejected EXCEPT ![r] = op]

\* The handler issues an outbound call and suspends on it.
Issue(r, op, content, await) ==
  /\ calls' = [calls EXCEPT ![r] = Append(@, Call(op, content))]
  /\ pc' = [pc EXCEPT ![r] = await]
  /\ UNCHANGED <<sent, pxVars, sm>>

\* Lines 134-162: the request arrives; validation; either the swipes query
\* (renterId given) or threads.create is issued.
ChatReceive(r, messages, renterIds) ==
  /\ pc[r] = "idle"
  /\ \E m \in messages, id \in renterIds :
       /\ req' = [req EXCEPT ![r] = [message |-> m, renterId |-> id]]
       /\ IF MessageMissing(m)
          THEN /\ Respond(r, BadRequestResponse)
               /\ UNCHANGED <<fullContent, calls>>
          ELSE IF Truthy(id)
          THEN /\ Issue(r, "airtable.swipes.query", id, "awaitSwipes")
               /\ fullContent' = [fullContent EXCEPT ![r] = m]
               /\ UNCHANGED res
          ELSE /\ Issue(r, "threads.create", "", "awaitThread")
               /\ fullContent' = [fullContent EXCEPT ![r] = m]
               /\ UNCHANGED res
  /\ UNCHANGED <<swipes, swipeSummary, threadId, runId, runStatus, polls,
                 rejected, apiVars>>

\* Lines 83-129 and 147-162: the swipes query settles, getSwipeSummaryForUser
\* resolves, fullContent is built and threads.create is issued.
ChatSwipesSettled(r, maxRecords) ==
  /\ pc[r] = "awaitSwipes"
  /\ \E o \in SwipeOutcomes(maxRecords) :
       /\ swipes' = [swipes EXCEPT ![r] = o]
       /\ swipeSummary' = [swipeSummary EXCEPT ![r] = SwipeSummaryResult(o)]
       /\ fullContent' = [fullContent EXCEPT ![r] =
            EnrichedContent(SwipeSummaryResult(o), req[r].message)]
  /\ Issue(r, "threads.create", "", "awaitThread")
  /\ UNCHANGED <<req, threadId, runId, runStatus, polls, res, rejected,
                 apiVars>>

\* Mutant of ChatThreadCreated: the thread is kept in a variable of the
\* module, shared by every request, instead of a const of the handler.
ChatThreadCreated_Shared(r) ==
  /\ pc[r] = "awaitThread"
  /\ \/ /\ threadId' = [q \in Reqs |-> nextThread]
        /\ nextThread' = nextThread + 1
        /\ Issue(r, "messages.create", fullContent[r], "awaitMessage")
        /\ UNCHANGED <<res, rejected>>
     \/ /\ Reject(r, "threads.create")
        /\ UNCHANGED <<threadId, nextThread, calls>>
  /\ UNCHANGED <<req, swipes, swipeSummary, fullContent, runId, runStatus,
                 polls, nextRun, threadMsgs, runs>>

\* Lines 162-167: threads.create settles; messages.create is issued with
\* fullContent.
ChatThreadCreated(r) ==
  /\ pc[r] = "awaitThread"
  /\ \/ /\ threadId' = [threadId EXCEPT ![r] = nextThread]
        /\ nextThread' = nextThread + 1
        /\ Issue(r, "messages.create", fullContent[r], "awaitMessage")
        /\ UNCHANGED <<res, rejected>>
     \/ /\ Reject(r, "threads.create")
        /\ UNCHANGED <<threadId, nextThread, calls>>
  /\ UNCHANGED <<req, swipes, swipeSummary, fullContent, runId, runStatus,
                 polls, nextRun, threadMsgs, runs>>

\* Lines 164-174: messages.create settles (the thread now holds the user
\* message); runs.create is issued.
ChatMessagePosted(r) ==
  /\ pc[r] = "awaitMessage"
  /\ \/ /\ threadMsgs' = [threadMsgs EXCEPT ![threadId[r]] =
                            Append(@, UserMessage(fullContent[r]))]
        /\ Issue(r, "runs.create", "", "awaitRun")
        /\ UNCHANGED <<res, rejected>>
     \/ /\ Reject(r, "messages.create")
        /\ UNCHANGED <<threadMsgs, calls>>
  /\ UNCHANGED <<req, swipes, swipeSummary, fullContent, threadId, runId,
                 runStatus, polls, nextThread, nextRun, runs>>

\* Lines 169-177: runs.create settles (the run exists, queued); the first
\* runs.retrieve is issued.
ChatRunStarted(r) ==
  /\ pc[r] = "awaitRun"
  /\ \/ /\ runId' = [runId EXCEPT ![r] = nextRun]
        /\ nextRun' = nextRun + 1
        /\ runs' = [runs EXCEPT ![nextRun] =
                      [thread |-> threadId[r], status |-> "queued",
                       last_error |-> Undefined]]
        /\ Issue(r, "runs.retrieve", "", "awaitRetrieve")
        /\ UNCHANGED <<res, rejected>>
     \/ /\ Reject(r, "runs.create")
        /\ UNCHANGED <<runId, nextRun, runs, calls>>
  /\ UNCHANGED <<req, swipes, swipeSummary, fullContent, threadId, runStatus,
                 polls, nextThread, threadMsgs>>

\* Mutant of ChatRunRetrieved: only "failed" is tested after the loop, the
\* test of the other statuses (lines 187-190) is missing.
ChatRunRetrieved_OnlyFailedTest(r) ==
  /\ pc[r] = "awaitRetrieve"
  /\ \/ LET st == [status |-> runs[runId[r]].status,
                   last_error |-> runs[runId[r]].last_error]
        IN /\ runStatus' = [runStatus EXCEPT ![r] = st]
           /\ IF KeepPolling(st.status)
              THEN /\ pc' = [pc EXCEPT ![r] = "awaitSleep"]
                   /\ UNCHANGED <<res, calls, sent, pxVars, sm>>
              ELSE IF st.status = "failed"
              THEN /\ Throw(r, RunFailedText(st.last_error))
                   /\ UNCHANGED calls
              ELSE /\ Issue(r, "messages.list", "", "awaitList")
                   /\ UNCHANGED res
           /\ UNCHANGED rejected
     \/ /\ Reject(r, "runs.retrieve")
        /\ UNCHANGED <<runStatus, calls>>
  /\ UNCHANGED <<req, swipes, swipeSummary, fullContent, threadId, runId,
                 polls, apiVars>>

\* Lines 177-193: a runs.retrieve settles.  While the status is queued or
\* in_progress the handler sleeps; failed and every other status but
\* completed throw; completed issues messages.list.
ChatRunRetrieved(r) ==
  /\ pc[r] = "awaitRetrieve"
  /\ \/ LET st == [status |-> runs[runId[r]].status,
                   last_error |-> runs[runId[r]].last_error]
        IN /\ runStatus' = [runStatus EXCEPT ![r] = st]
           /\ IF KeepPolling(st.status)
              THEN /\ pc' = [pc EXCEPT ![r] = "awaitSleep"]
                   /\ UNCHANGED <<res, calls, sent, pxVars, sm>>
              ELSE IF st.status = "failed"
              THEN /\ Throw(r, RunFailedText(st.last_error))
                   /\ UNCHANGED calls
              ELSE IF st.status # "completed"
              THEN /\ Throw(r, RunNotCompletedText(st.status))
                   /\ UNCHANGED calls
              ELSE /\ Issue(r, "messages.list", "", "awaitList")
                   /\ UNCHANGED res
           /\ UNCHANGED rejected
     \/ /\ Reject(r, "runs.retrieve")
        /\ UNCHANGED <<runStatus, calls>>
  /\ UNCHANGED <<req, swipes, swipeSummary, fullContent, threadId, runId,
                 polls, apiVars>>

\* Lines 178-181: the 1.5 s timer fires; runs.retrieve is issued again.  The
\* loop has no attempt limit: `polls` and `calls` record the first MaxPolls
\* re-polls, later ones are issued all the same and leave the record as is.
ChatPollTimer(r) ==
  /\ pc[r] = "awaitSleep"
  /\ IF polls[r] < MaxPolls
     THEN /\ polls' = [polls EXCEPT ![r] = @ + 1]
          /\ Issue(r, "runs.retrieve", "", "awaitRetrieve")
     ELSE /\ pc' = [pc EXCEPT ![r] = "awaitRetrieve"]
          /\ UNCHANGED <<polls, calls, sent, pxVars, sm>>
  /\ UNCHANGED <<req, swipes, swipeSummary, fullContent, threadId, runId,
                 runStatus, res, rejected, apiVars>>

\* Lines 193-205: messages.list settles; the reply is computed and sent.
ChatMessagesListed(r) ==
  /\ pc[r] = "awaitList"
  /\ \/ /\ Respond(r, ReplyResponse(ChatReply(threadMsgs[threadId[r]],
                                                runId[r])))
        /\ UNCHANGED rejected
     \/ Reject(r, "messages.list")
  /\ UNCHANGED <<req, swipes, swipeSummary, fullContent, threadId, runId,
                 runStatus, polls, calls, apiVars>>

ChatStep(r) ==
  \/ ChatReceive(r, ChatMessages, ChatRenterIds)
  \/ ChatSwipesSettled(r, MaxChatRecords)
  \/ ChatThreadCreated(r)
  \/ ChatMessagePosted(r)
  \/ ChatRunStarted(r)
  \/ ChatRunRetrieved(r)
  \/ ChatPollTimer(r)
  \/ ChatMessagesListed(r)

\* One POST /chat request handled on its own, against the assistant API.
ChatNext ==
  \/ ChatStep(1)
  \/ \E u \in RunIds : RunAdvance(u, MaxThreadMsgs)

SpecChat == Init /\ [][ChatNext]_vars

\* The same request, with the shorter run outputs.
ChatFairNext ==
  \/ ChatStep(1)
  \/ \E u \in RunIds : RunAdvance(u, MaxFairMsgs)

\* Every awaited call settles and every timer fires (the handler is resumed
\* whenever it can be) and the assistant API does not leave a run queued or
\* in_progress for ever.
SpecChatFair ==
  /\ Init /\ [][ChatFairNext]_vars
  /\ WF_vars(ChatStep(1))
  /\ \A u \in RunIds : WF_vars(RunAdvance(u, MaxFairMsgs))

\* ------------------------------------ POST /chat: two requests in flight
\* The requests that are in flight together, and the message each one
\* carries (no renterId: the enrichment step is skipped, lines 145-156).
ConcReqs == {1, 2}
ConcMessages(r) == IF r = 1 THEN {"Hi"} ELSE {"Yo"}

\* One run of the handler of request r, from one await to the next.
ConcStep(r) ==
  \/ ChatReceive(r, ConcMessages(r), {Undefined})
  \/ ChatThreadCreated(r)
  \/ ChatMessagePosted(r)
  \/ ChatRunStarted(r)
  \/ ChatRunRetrieved(r)
  \/ ChatPollTimer(r)
  \/ ChatMessagesListed(r)

\* The run that request r started, worked on by the assistant API.
ConcRunAdvance(r) ==
  \E u \in RunIds : runId[r] = u /\ RunAdvance(u, MaxFairMsgs)

\* The event loop resumes whichever handler has a settled await; the
\* assistant API works on the runs on its own.
ConcNext ==
  \/ \E r \in ConcReqs : ConcStep(r)
  \/ \E r \in ConcReqs : ConcRunAdvance(r)

SpecConc == Init /\ [][ConcNext]_vars

\* Every handler is resumed whenever it can be; the run of request 1 leaves
\* queued / in_progress at some time, the run of request 2 may stay there
\* for ever.
SpecConcFair ==
  /\ SpecConc
  /\ \A r \in ConcReqs : WF_vars(ConcStep(r))
  /\ WF_vars(ConcRunAdvance(1))

\* ----------------------------------------- the single-call handlers
\* A JSON value, as far as the handlers look into it: its `error` property
\* (a string in the bodies the proxy builds, an object {message, type} in
\* the store's error bodies), its `details` property and the rest.
Json(errStr, errMessage, errType, details, rest) ==
  [error |-> [str |-> errStr, message |-> errMessage, type |-> errType],
   details |-> details, rest |-> rest]

ErrorJson(text) == Json(text, Undefined, Undefined, Undefined, "")
ErrorDetailsJson(text, details) == Json(text, Undefined, Undefined, details, "")
NoJson == Json(Undefined, Undefined, Undefined, Undefined, "")

\* The JSON values an upstream sends.
UpstreamJson ==
  {Json(Undefined, Undefined, Undefined, Undefined, "{records}")}
  \cup {Json(Undefined, m, t, Undefined, "") :
          m \in {Undefined, "Table not found"},
          t \in {Undefined, "NOT_FOUND"}}

\* A body on the wire: it parses as JSON or not; a parsing body has a value
\* and a layout (compact, or with insignificant white space).
Bytes(parses, value, spaced) ==
  [parses |-> parses, value |-> value, spaced |-> spaced]

Unparsable == Bytes(FALSE, NoJson, FALSE)

\* JSON.stringify as res.json() applies it: the compact layout.
Stringify(value) == Bytes(TRUE, value, FALSE)

UpstreamStatuses == {200, 404, 500}

\* response.ok of fetch.
Ok(status) == status >= 200 /\ status <= 299

\* What a fetch ends in: it rejects, or a response with status and body.
Upstream(kind, status, body) == [kind |-> kind, status |-> status, body |-> body]

UpstreamOutcomes ==
  {Upstream("transport", 0, Unparsable)}
  \cup {Upstream("http", st, b) :
          st \in UpstreamStatuses,
          b \in {Unparsable} \cup {Bytes(TRUE, v, sp) :
                                     v \in UpstreamJson, sp \in BOOLEAN}}

\* res.status(status).json(value).
Relay(status, value) == [status |-> status, body |-> Stringify(value)]

\* encodeURIComponent on the table names of the model.
EncodeURIComponent(name) ==
  IF name = "Open Houses" THEN "Open%20Houses" ELSE name

\* A request arrives while no single-call handler is in flight; the relay
\* (POST /openai, GET /airtable) completed before it is remembered.
PxStart(route, request, call) ==
  /\ px.pc \in {"idle", "done"}
  /\ px' = [pc |-> "await", route |-> route, req |-> request,
            calls |-> <<call>>, up |-> NoUpstream, res |-> NoRelay]
  /\ pxPrev' = IF px.pc = "done" /\ px.route # "swipe"
               THEN [route |-> px.route, up |-> px.up, res |-> px.res]
               ELSE pxPrev
  /\ UNCHANGED <<chatVars, apiVars, sm>>

\* The fetch of the handler in flight settled with `up`; `response` is sent.
PxFinish(up, response) ==
  /\ px' = [pc |-> "done", route |-> px.route, req |-> px.req,
            calls |-> px.calls, up |-> up, res |-> response]
  /\ UNCHANGED <<pxPrev, chatVars, apiVars, sm>>

\* upstream.json() rejects: on a rejected fetch it is never reached, on a
\* response whose body does not parse it throws.
Throws(up) == up.kind = "transport" \/ ~up.body.parses

\* POST /openai, lines 216-225: the body is forwarded.
OpenAIReceive ==
  \E body \in {"{messages}"} :
    PxStart("openai", [body |-> body], Call("openai.completions", body))

\* Mutant of OpenAIResponse: res.status(upstream.status) is left out.
OpenAIResponse_NoStatus(up) ==
  IF Throws(up) THEN Relay(500, ErrorJson("OpenAI proxy failure"))
  ELSE Relay(200, up.body.value)

\* What POST /openai answers to an outcome of its fetch (lines 226-231).
OpenAIResponse(up) ==
  IF Throws(up) THEN Relay(500, ErrorJson("OpenAI proxy failure"))
  ELSE Relay(up.status, up.body.value)

OpenAISettled ==
  /\ px.pc = "await" /\ px.route = "openai"
  /\ \E up \in UpstreamOutcomes : PxFinish(up, OpenAIResponse(up))

\* GET /airtable (both versions): table defaults to "Listings", params to
\* "", and the URL ends in {table}?{params}.
AirtableUrl(table, params) ==
  EncodeURIComponent(IF table = Undefined THEN "Listings" ELSE table)
  \o "?" \o (IF params = Undefined THEN "" ELSE params)

AirtableReceive(route) ==
  \E table \in {Undefined, "Open Houses"}, params \in {Undefined, "maxRecords%3D5"} :
    PxStart(route, [table |-> table, params |-> params],
            Call("airtable.get", AirtableUrl(table, params)))

\* What GET /airtable of v1.1 answers (lines 249-261).
AirtableResponse(up) ==
  IF Throws(up) THEN Relay(500, ErrorJson("Airtable proxy failure (GET)"))
  ELSE IF ~Ok(up.status)
  THEN Relay(up.status,
             ErrorDetailsJson("Airtable API error",
               IF Truthy(up.body.value.error.message)
               THEN up.body.value.error.message
               ELSE "Failed to fetch data from Airtable."))
  ELSE Relay(up.status, up.body.value)

AirtableSettled ==
  /\ px.pc = "await" /\ px.route = "airtable"
  /\ \E up \in UpstreamOutcomes : PxFinish(up, AirtableResponse(up))

\* What GET /airtable of v1.0 answers (proxy-server.js lines 134-139).
AirtableV10Response(up) ==
  IF Throws(up) THEN Relay(500, ErrorJson("airtable proxy failure"))
  ELSE Relay(up.status, up.body.value)

AirtableV10Settled ==
  /\ px.pc = "await" /\ px.route = "airtable-v1.0"
  /\ \E up \in UpstreamOutcomes : PxFinish(up, AirtableV10Response(up))

\* POST /airtable/swipe.
SwipeFieldValues(v) == {Undefined, "", v}

SwipeBodies ==
  [renterId : SwipeFieldValues("u1"),
   listingRecordId : {Undefined, "recL"},
   swipeAction : {Undefined, "Like"},
   timestamp : SwipeFieldValues("2024-05-01T10:00:00Z")]

\* Mutant of SwipeFieldsMissing: timestamp is not required.
SwipeFieldsMissing_NoTimestamp(body) ==
  ~Truthy(body.renterId) \/ ~Truthy(body.listingRecordId)
  \/ ~Truthy(body.swipeAction)

\* The test of line 271.
SwipeFieldsMissing(body) ==
  ~Truthy(body.renterId) \/ ~Truthy(body.listingRecordId)
  \/ ~Truthy(body.swipeAction) \/ ~Truthy(body.timestamp)

SwipeBadRequest ==
  Relay(400, ErrorJson("Missing required fields. Expected: renterId, listingRecordId, swipeAction, timestamp."))

\* The record posted to the Swipes table (lines 279-289), field by field.
SwipePayload(body) ==
  "Renter_ID=" \o body.renterId \o ";Listing=[" \o body.listingRecordId
  \o "];Action=" \o body.swipeAction \o ";Timestamp=" \o body.timestamp

\* Lines 267-305: validation, then the POST to the store.
SwipeReceive ==
  /\ px.pc \in {"idle", "done"}
  /\ \E body \in SwipeBodies :
       IF SwipeFieldsMissing(body)
       THEN /\ px' = [pc |-> "done", route |-> "swipe", req |-> body,
                      calls |-> <<>>, up |-> NoUpstream,
                      res |-> SwipeBadRequest]
            /\ UNCHANGED <<pxPrev, chatVars, apiVars, sm>>
       ELSE PxStart("swipe", body, Call("airtable.swipes.create",
                                        SwipePayload(body)))

\* What POST /airtable/swipe answers to an outcome of its fetch (307-321).
SwipeResponse(up) ==
  IF Throws(up)
  THEN Relay(500, ErrorJson("Internal server error while logging swipe."))
  ELSE IF ~Ok(up.status)
  THEN Relay(up.status,
             ErrorDetailsJson("Airtable API error when logging swipe",
               IF Truthy(up.body.value.error.message)
               THEN up.body.value.error.message
               ELSE IF Truthy(up.body.value.error.type)
               THEN up.body.value.error.type
               ELSE "Failed to communicate with Airtable."))
  ELSE Relay(201, up.body.value)

SwipeSettled ==
  /\ px.pc = "await" /\ px.route = "swipe"
  /\ \E up \in UpstreamOutcomes : PxFinish(up, SwipeResponse(up))

ProxyNext ==
  \/ OpenAIReceive
  \/ OpenAISettled
  \/ AirtableReceive("airtable")
  \/ AirtableSettled
  \/ AirtableReceive("airtable-v1.0")
  \/ AirtableV10Settled
  \/ SwipeReceive
  \/ SwipeSettled

SpecProxy == Init /\ [][ProxyNext]_vars

\* ------------------------------------ the swipe summary, on its own
\* getSwipeSummaryForUser from line 95 on, applied to every records array of
\* up to MaxRecords records.
InitSummary ==
  /\ ChatInit
  /\ px = PxIdle
  /\ pxPrev = NoPrev
  /\ \E rs \in SeqsUpTo(SwipeRecords, MaxRecords) :
       sm = [pc |-> "parsed", records |-> rs, out |-> Undefined]

SummaryRender ==
  /\ sm.pc = "parsed"
  /\ sm' = [sm EXCEPT !.pc = "returned", !.out = SwipeSummary(TRUE, sm.records)]
  /\ UNCHANGED <<chatVars, apiVars, pxVars>>

SpecSummary == InitSummary /\ [][SummaryRender]_vars

\* ------------------------------------------------------ the whole server
\* Every handler, any number of POST /chat requests in flight at once.  The
\* handlers share no variable, so each is checked under its own
\* specification: SpecChat, SpecProxy, SpecSummary.
Next ==
  \/ \E r \in Reqs : ChatStep(r)
  \/ \E u \in RunIds : RunAdvance(u, MaxThreadMsgs)
  \/ ProxyNext
  \/ SummaryRender

Spec == Init /\ [][Next]_vars

\* ------------------------------------------------------ POST /chat claims
Received(r) == pc[r] # "idle"
Answered(r) == pc[r] = "done"
CallOps(r) == {calls[r][i].op : i \in DOMAIN calls[r]}
CountOp(r, op) == Cardinality({i \in DOMAIN calls[r] : calls[r][i].op = op})

\* C1: a POST /chat request whose message is absent or empty, with or
\* without renterId, is answered 400 and issues no outbound call at all.
C1_MissingMessageRejected ==
  \A r \in Reqs :
    (Received(r) /\ req[r].message \in {Undefined, ""})
      => /\ Answered(r)
         /\ res[r].status = 400
         /\ res[r].kind = "error"
         /\ calls[r] = <<>>
         /\ threadId[r] = 0 /\ runId[r] = 0 /\ polls[r] = 0

C1_Witness ==
  \E r \in Reqs :
    /\ Answered(r) /\ req[r].message = "" /\ req[r].renterId = "u1"
    /\ res[r].status = 400

\* The enrichment query of request r ended in a transport error, a non-2xx
\* response or a fault while reading the body.
EnrichmentFailed(r) ==
  \/ swipes[r].kind = "transport"
  \/ swipes[r].kind = "http" /\ ~(swipes[r].ok /\ swipes[r].json)

C4_FailedRunIs500 ==
  \A r \in Reqs :
    runStatus[r].status = "failed"
      => /\ Answered(r)
         /\ res[r].status = 500
         /\ res[r].kind = "error"
         /\ Truthy(runStatus[r].last_error)
              => res[r].text = "Assistant run failed: " \o runStatus[r].last_error
         /\ "messages.list" \notin CallOps(r)

C4_Witness ==
  \E r \in Reqs :
    /\ runStatus[r].status = "failed"
    /\ runStatus[r].last_error = "Rate limit exceeded"
    /\ res[r].status = 500

\* The assistant-role messages of run `run` among `data`, and the text
\* segments of a sequence of messages, in order.
OwnAssistant(data, run) ==
  SelectSeq(data, LAMBDA m : m.role = "assistant" /\ m.run_id = run)

RECURSIVE TextsOf(_)
TextsOf(msgs) ==
  IF Len(msgs) = 0 THEN <<>>
  ELSE LET c == msgs[1].content
           idx == {j \in DOMAIN c : c[j].type = "text"}
           RECURSIVE Pick(_)
           Pick(j) == IF j > Len(c) THEN <<>>
                      ELSE (IF j \in idx THEN <<c[j].value>> ELSE <<>>)
                           \o Pick(j + 1)
       IN Pick(1) \o TextsOf(Tail(msgs))

\* Request r was answered from a successful messages.list.
RepliedFromList(r) == Answered(r) /\ res[r].kind = "reply"
ListedData(r) == threadMsgs[threadId[r]]

\* C5 (as claimed): a completed run that yields no assistant text, whether
\* the run has no assistant message or only non-text segments, is answered
\* 200 with a non-empty sentinel reply.
C5_NoTextGivesSentinel ==
  \A r \in Reqs :
    (RepliedFromList(r) /\ TextsOf(OwnAssistant(ListedData(r), runId[r])) = <<>>)
      => /\ res[r].status = 200
         /\ res[r].text # ""

C7_RejectedCallAborts ==
  \A r \in Reqs :
    rejected[r] # ""
      => /\ Answered(r)
         /\ res[r].status = 500
         /\ res[r].kind = "error"
         /\ Len(calls[r]) > 0
         /\ calls[r][Len(calls[r])].op = rejected[r]
         /\ CountOp(r, rejected[r]) =
              (IF rejected[r] = "runs.retrieve" THEN polls[r] + 1 ELSE 1)

C7_Witness ==
  \E r \in Reqs :
    /\ rejected[r] = "runs.retrieve"
    /\ polls[r] = 1
    /\ res[r].status = 500
    /\ "messages.list" \notin CallOps(r)

\* C8: when the enrichment query succeeds with zero records the summary is
\* exactly "No past swipes recorded for this user." and what is posted to
\* the thread is that text placed before the user's message, not the bare
\* message.
C8_ZeroRecordsSummary ==
  \A r \in Reqs :
    (swipes[r].kind = "http" /\ swipes[r].ok /\ swipes[r].json
       /\ swipes[r].present /\ swipes[r].records = <<>>)
      => /\ swipeSummary[r] = "No past swipes recorded for this user."
         /\ fullContent[r] =
              "Context based on user's past property swipes: "
              \o "No past swipes recorded for this user."
              \o "\n\nUser's current message: " \o req[r].message
         /\ fullContent[r] # req[r].message
         /\ \A i \in DOMAIN calls[r] :
              calls[r][i].op = "messages.create"
                => calls[r][i].content = fullContent[r]

C8_Witness ==
  \E r \in Reqs :
    /\ swipes[r].kind = "http" /\ swipes[r].ok /\ swipes[r].json
    /\ swipes[r].present /\ swipes[r].records = <<>>
    /\ req[r].renterId = "u1"
    /\ CountOp(r, "messages.create") = 1

\* ------------------------------------------- POST /airtable/swipe claim
\* C2: a POST /airtable/swipe request in which renterId, listingRecordId,
\* swipeAction or timestamp is missing is answered 400 and nothing is
\* posted to the store.
C2_SwipeMissingFieldRejected ==
  (px.route = "swipe"
     /\ \E f \in {"renterId", "listingRecordId", "swipeAction", "timestamp"} :
          px.req[f] \in {Undefined, ""})
    => /\ px.pc = "done"
       /\ px.res.status = 400
       /\ px.calls = <<>>
       /\ px.up = NoUpstream

C2_Witness ==
  /\ px.route = "swipe" /\ px.pc = "done"
  /\ px.req.renterId = "u1" /\ px.req.listingRecordId = "recL"
  /\ px.req.swipeAction = "Like" /\ px.req.timestamp = Undefined
  /\ px.res.status = 400

\* ------------------------------------------------- swipe summary claim
ExampleRecords ==
  << [Action |-> "Like", Listing |-> <<"A">>],
     [Action |-> "Like", Listing |-> <<"B", "A">>],
     [Action |-> "Dislike", Listing |-> <<"A">>] >>

ExpectedSummary(rs) ==
  LET L == Cardinality({i \in DOMAIN rs : rs[i].Action = "Like"})
      D == Cardinality({i \in DOMAIN rs : rs[i].Action = "Dislike"})
      liked == SelectSeq(rs, LAMBDA x : x.Action = "Like" /\ x.Listing # <<>>)
      ids == [i \in 1 .. Len(liked) |-> liked[i].Listing[1]]
  IN "User has " \o ToString(L) \o " like(s) and " \o ToString(D)
     \o " dislike(s)."
     \o (IF ids # <<>>
         THEN " IDs of liked listings: " \o Join(ids, ", ") \o "."
         ELSE "")

\* C9: for a non-empty records array the summary is "User has {L} like(s)
\* and {D} dislike(s)." with L and D the numbers of Like and Dislike
\* records, followed by " IDs of liked listings: {ids}." exactly when a
\* Like record has a linked item, ids being the first linked id of each such
\* record in record order joined by ", "; 2 Likes (A, B) and 1 Dislike give
\* "User has 2 like(s) and 1 dislike(s). IDs of liked listings: A, B."
C9_CountedSummary ==
  (sm.pc = "returned" /\ Len(sm.records) > 0)
    => /\ sm.out = ExpectedSummary(sm.records)
       /\ (sm.records = ExampleRecords
             => sm.out = "User has 2 like(s) and 1 dislike(s). IDs of liked listings: A, B.")
       /\ (sm.records = <<[Action |-> "Dislike", Listing |-> <<"A">>]>>
             => sm.out = "User has 0 like(s) and 1 dislike(s).")
       /\ (sm.records = <<[Action |-> "Like", Listing |-> <<>>],
                          [Action |-> "Superlike", Listing |-> <<"B">>]>>
             => sm.out = "User has 1 like(s) and 0 dislike(s).")

C9_Witness ==
  /\ sm.pc = "returned"
  /\ sm.records = ExampleRecords
  /\ sm.out = "User has 2 like(s) and 1 dislike(s). IDs of liked listings: A, B."

\* ------------------------------------------------------- relay claims
RelayRoutes == {"openai", "airtable", "airtable-v1.0"}
Relayed == px.pc = "done" /\ px.route \in RelayRoutes

\* C10 (as claimed): every upstream response that is received is relayed
\* with its status and its body unchanged; only a transport failure gives a
\* locally built response.
C10_RelayIsVerbatim ==
  (Relayed /\ px.up.kind = "http")
    => /\ px.res.status = px.up.status
       /\ px.res.body.value = px.up.body.value

LocalFailures ==
  {Relay(500, ErrorJson(t)) :
     t \in {"OpenAI proxy failure", "Airtable proxy failure (GET)",
            "airtable proxy failure"}}

\* C10 (amended): POST /openai (and GET /airtable of v1.0) relay every
\* received response whose body is JSON with status and JSON value
\* unchanged; GET /airtable does so for 2xx responses, and relays a non-2xx
\* response with its status but with the body {error: "Airtable API error",
\* details: the upstream's error.message or a fixed text}; the same upstream
\* response relayed twice gives the same output; a transport failure or a
\* body that is not JSON gives the fixed local 500.
C10_RelayAmended ==
  Relayed
    => /\ (px.up.kind = "http" /\ px.up.body.parses
             /\ (px.route = "airtable" => Ok(px.up.status)))
            => /\ px.res.status = px.up.status
               /\ px.res.body.parses
               /\ px.res.body.value = px.up.body.value
       /\ (px.up.kind = "http" /\ px.up.body.parses
             /\ px.route = "airtable" /\ ~Ok(px.up.status))
            => /\ px.res.status = px.up.status
               /\ px.res.body.value.error.str = "Airtable API error"
               /\ px.res.body.value.details =
                    (IF px.up.body.value.error.message \in {Undefined, ""}
                     THEN "Failed to fetch data from Airtable."
                     ELSE px.up.body.value.error.message)
       /\ (px.up.kind = "transport" \/ ~px.up.body.parses)
            => px.res \in LocalFailures
       /\ (pxPrev.route = px.route /\ pxPrev.up = px.up)
            => pxPrev.res = px.res

C10_Witness ==
  /\ Relayed /\ px.route = "openai"
  /\ px.up.kind = "http" /\ px.up.status = 404 /\ px.up.body.parses
  /\ px.up.body.spaced
  /\ px.up.body.value.error.message = "Table not found"
  /\ px.res.status = 404
  /\ pxPrev.route = px.route /\ pxPrev.up = px.up

\* ------------------------------------------- POST /chat: order of calls
\* The calls of request r to the assistant API, in issue order.
AssistantOps(r) ==
  LET a == SelectSeq(calls[r], LAMBDA c : c.op # "airtable.swipes.query")
  IN [i \in DOMAIN a |-> a[i].op]

InCallOrder(ops) ==
  \A i \in DOMAIN ops :
    /\ i = 1 => ops[i] = "threads.create"
    /\ i = 2 => ops[i] = "messages.create"
    /\ i = 3 => ops[i] = "runs.create"
    /\ i = 4 => ops[i] = "runs.retrieve"
    /\ i > 4 => /\ ops[i] \in {"runs.retrieve", "messages.list"}
                /\ ops[i - 1] = "runs.retrieve"

C11_OrderInv ==
  \A r \in Reqs :
    /\ InCallOrder(AssistantOps(r))
    /\ CountOp(r, "messages.list") <= 1
    /\ "messages.list" \in CallOps(r) => runStatus[r].status = "completed"
    /\ pc[r] = "awaitSleep" => runStatus[r].status \in {"queued", "in_progress"}
    /\ runStatus[r].status \notin {"none", "queued", "in_progress"}
         => pc[r] \in {"awaitList", "done"}

C11_OrderStep ==
  \A r \in Reqs :
    /\ (pc[r] = "awaitSleep" /\ pc'[r] # "awaitSleep")
         => /\ pc'[r] = "awaitRetrieve"
            /\ runStatus[r].status \in {"queued", "in_progress"}
    /\ (pc[r] # "awaitList" /\ pc'[r] = "awaitList")
         => /\ pc[r] = "awaitRetrieve"
            /\ runStatus'[r].status = "completed"

\* C11: the calls to the assistant API are issued in the order create thread,
\* post message, start run, retrieve run status (once or more), list
\* messages; a retrieve is issued again only after the previous one returned
\* queued or in_progress, polling stops at the first other status, and
\* messages are listed at most once and only after a retrieve returned
\* "completed".
C11_CallOrder == []C11_OrderInv /\ [][C11_OrderStep]_vars

C11_Witness ==
  \E r \in Reqs :
    /\ AssistantOps(r) = <<"threads.create", "messages.create", "runs.create",
                           "runs.retrieve", "runs.retrieve", "messages.list">>
    /\ Answered(r) /\ res[r].status = 200

\* ------------------------------------ POST /chat: runs that do not complete
\* C13: POST /chat answers 200 {reply} only if the last polled run status
\* was "completed"; when polling ends on any other status (failed, cancelled,
\* expired, requires_action) the thread's messages are never listed and the
\* answer is 500 with an error payload.
C13_OnlyCompletedReplies ==
  \A r \in Reqs :
    /\ res[r].status = 200
         => /\ res[r].kind = "reply"
            /\ runStatus[r].status = "completed"
    /\ runStatus[r].status \in {"failed", "cancelled", "expired", "requires_action"}
         => /\ Answered(r)
            /\ res[r].status = 500
            /\ res[r].kind = "error"
            /\ res[r].text # ""
            /\ "messages.list" \notin CallOps(r)

C13_Witness ==
  \E r \in Reqs :
    /\ runStatus[r].status = "requires_action"
    /\ Answered(r)
    /\ res[r] = [status |-> 500, kind |-> "error",
                 text |-> "Assistant run did not complete. Status: requires_action"]

\* --------------------------------------- POST /chat: exactly one answer
C14_OneAnswerInv ==
  \A r \in Reqs :
    /\ sent[r] <= 1
    /\ Answered(r) <=> sent[r] = 1
    /\ sent[r] = 0 <=> res[r] = NoResponse
    /\ (Answered(r) /\ Truthy(req[r].message))
         => \/ res[r].status = 200 /\ res[r].kind = "reply"
            \/ res[r].status = 500 /\ res[r].kind = "error"
    /\ pc[r] \in {"awaitRetrieve", "awaitSleep"} => sent[r] = 0
    /\ pc[r] = "awaitSleep" => ENABLED ChatPollTimer(r)

C14_OneAnswerStep ==
  \A r \in Reqs :
    Answered(r) => /\ Answered(r)'
                   /\ res'[r] = res[r]
                   /\ sent'[r] = sent[r]
                   /\ calls'[r] = calls[r]

\* C14: a POST /chat request with a non-empty message is answered exactly
\* once, with 200 {reply} or 500 {error}, provided every outbound call
\* settles and the run leaves queued / in_progress at some time; the polling
\* loop has no attempt limit: while the status retrieved is queued or
\* in_progress the timer is armed again and no response is sent.
C14_AnsweredExactlyOnce ==
  /\ []C14_OneAnswerInv
  /\ [][C14_OneAnswerStep]_vars
  /\ \A r \in Reqs :
       (Received(r) /\ Truthy(req[r].message)) ~> Answered(r)

C14_Witness ==
  \E r \in Reqs :
    /\ Answered(r) /\ sent[r] = 1
    /\ polls[r] = MaxPolls
    /\ res[r].status = 200

\* --------------------------- POST /chat: concurrent requests (claim C12)
\* What belongs to request r alone: the locals of its handler invocation.
OwnState(r) ==
  <<pc[r], req[r], swipes[r], swipeSummary[r], fullContent[r], threadId[r],
    runId[r], runStatus[r], polls[r], res[r], calls[r], rejected[r], sent[r]>>

C12_OwnInv ==
  \A r \in ConcReqs :
    /\ \A q \in ConcReqs \ {r} :
         /\ threadId[r] # 0 => threadId[q] # threadId[r]
         /\ runId[r] # 0 => runId[q] # runId[r]
    /\ runId[r] # 0 => /\ threadId[r] # 0
                       /\ runs[runId[r]].thread = threadId[r]
    /\ threadId[r] # 0 =>
         \A i \in DOMAIN ListedData(r) :
           IF i = 1
           THEN ListedData(r)[i] = UserMessage(CHOOSE m \in ConcMessages(r) : TRUE)
           ELSE ListedData(r)[i].run_id \in {runId[r], OtherRunId}
    /\ RepliedFromList(r) =>
         LET own == OwnAssistant(ListedData(r), runId[r])
         IN res[r].text = IF Len(own) = 0 THEN NoReplyText
                          ELSE Join(TextsOf(<<own[Len(own)]>>), "\n")
    /\ ~Answered(r) => ENABLED ConcStep(r)

C12_OwnStep ==
  \A r \in ConcReqs : \A q \in ConcReqs \ {r} :
    OwnState(r)' # OwnState(r)
      => /\ OwnState(q)' = OwnState(q)
         /\ threadId[q] # 0 => threadMsgs'[threadId[q]] = threadMsgs[threadId[q]]
         /\ runId[q] # 0 => runs'[runId[q]] = runs[runId[q]]

\* C12: two POST /chat requests in flight together, under any interleaving
\* of their handler steps: each creates and uses a thread and a run of its
\* own, its reply is computed from the messages of its own thread and run
\* only, a step of one request changes nothing of the other, and a request
\* whose run stays queued / in_progress for ever (it polls without end)
\* does not keep the other request from being answered.
C12_ConcurrentIndependent ==
  /\ []C12_OwnInv
  /\ [][C12_OwnStep]_vars
  /\ (Received(1) /\ Truthy(req[1].message)) ~> Answered(1)

\* Request 2 is suspended in its polling loop, its polls used up to the
\* bound, while request 1, received after request 2 created its thread and
\* run, was answered from its own thread.
C12_Witness ==
  /\ pc[2] = "awaitSleep" /\ polls[2] = MaxPolls
  /\ threadId[2] = 1 /\ runId[2] = 1
  /\ threadId[1] = 2 /\ runId[1] = 2
  /\ RepliedFromList(1) /\ res[1].text = "Hello"
  /\ ListedData(1)[1] = UserMessage("Hi")
  /\ ListedData(2) = <<UserMessage("Yo")>>

====
